---- MODULE Spec2Model ----
(***************************************************************************)
(* Model of the hand-written tokenizer of src/lexer-advanced.cpp.          *)
(*                                                                         *)
(* A source string is a sequence of one-character strings; the cursor      *)
(* fields m_pos and m_start are 0-based indices as in the C++ code.  Every *)
(* Lexer object is one index of the state functions, so that several       *)
(* independent instances can be stepped in any interleaving.  One call of  *)
(* Lexer::next() is a run of steps from pc = "idle" back to pc = "idle":   *)
(* one step per iteration of each loop of the code.                        *)
(*                                                                         *)
(* Characters are restricted to 7-bit ASCII (plus the NUL terminator): the *)
(* <cctype> predicates are only defined for those when given a plain char. *)
(***************************************************************************)
EXTENDS Integers, Sequences, FiniteSets, TLC

(***************************************************************************)
(* Bounds of the input families.                                           *)
(***************************************************************************)
\* longest source of the exhaustive family over MixChars
MaxLen == 3
\* longest source of the exhaustive family over every character of the code
MaxFullLen == 2
\* longest source of the exhaustive family over SkipChars
MaxSkipLen == 5
\* longest source of an instance of the two-instance specification
MaxPairLen == 2
\* longest source of the exhaustive family of the two lexer variants
MaxCoarseLen == 3
\* how many times a caller asks again after it has seen EndOfInput
MaxEndCalls == 2

(***************************************************************************)
(* Characters and the <cctype> predicates the lexer uses.                  *)
(***************************************************************************)
LowerSeq ==
  << "a","b","c","d","e","f","g","h","i","j","k","l","m",
     "n","o","p","q","r","s","t","u","v","w","x","y","z" >>

UpperSeq ==
  << "A","B","C","D","E","F","G","H","I","J","K","L","M",
     "N","O","P","Q","R","S","T","U","V","W","X","Y","Z" >>

Digits == {"0","1","2","3","4","5","6","7","8","9"}

\* the value of the look-ahead when there is no next character ('\0')
NUL == "\\0"

Range(f) == {f[k] : k \in DOMAIN f}

\* variant: the underscore counts as a letter
isalphaUnderscore(c) == c \in Range(LowerSeq) \cup Range(UpperSeq) \cup {"_"}

isalpha(c) == c \in Range(LowerSeq) \cup Range(UpperSeq)

isnumber(c) == c \in Digits

isalnum(c) == isalpha(c) \/ isnumber(c)

(***************************************************************************)
(* TokenType, the keyword table and the Token record.                      *)
(***************************************************************************)
TokenType ==
  { "Invalid", "Identifier", "Assign", "Multiply", "Divide", "Plus", "Minus",
    "Greater", "GreaterEqual", "Equal", "LesserEqual", "Lesser",
    "BraceOpen", "BraceClose", "ParenOpen", "ParenClose", "Comma", "Colon",
    "SemiColon", "IntegerLiteral", "FloatLiteral", "StringLiteral",
    "Int", "Double", "String", "Function", "Return", "If", "Else", "For",
    "Continue", "Break", "EndOfInput" }

\* the display string of every TokenType, as main() prints it
tokenTypeMap ==
  ( "Invalid"        :> <<"<","I","n","v","a","l","i","d",">">> ) @@
  ( "Identifier"     :>
      <<"<","I","d","e","n","t","i","f","i","e","r",">">> ) @@
  ( "Assign"         :> <<"=">> ) @@
  ( "Multiply"       :> <<"*">> ) @@
  ( "Divide"         :> <<"/">> ) @@
  ( "Plus"           :> <<"+">> ) @@
  ( "Minus"          :> <<"-">> ) @@
  ( "Greater"        :> <<">">> ) @@
  ( "GreaterEqual"   :> <<">","=">> ) @@
  ( "Equal"          :> <<"=","=">> ) @@
  ( "LesserEqual"    :> <<"<","=">> ) @@
  ( "Lesser"         :> <<"<">> ) @@
  ( "BraceOpen"      :> <<"{">> ) @@
  ( "BraceClose"     :> <<"}">> ) @@
  ( "ParenOpen"      :> <<"(">> ) @@
  ( "ParenClose"     :> <<")">> ) @@
  ( "Comma"          :> <<",">> ) @@
  ( "Colon"          :> <<":">> ) @@
  ( "SemiColon"      :> <<";">> ) @@
  ( "IntegerLiteral" :>
      <<"<","I","n","t","e","g","e","r"," ","L","i","t","e","r","a","l",">">> ) @@
  ( "FloatLiteral"   :>
      <<"<","F","l","o","a","t"," ","L","i","t","e","r","a","l",">">> ) @@
  ( "StringLiteral"  :>
      <<"<","S","t","r","i","n","g"," ","L","i","t","e","r","a","l",">">> ) @@
  ( "Int"            :> <<"i","n","t">> ) @@
  ( "Double"         :> <<"d","o","u","b","l","e">> ) @@
  ( "String"         :> <<"s","t","r","i","n","g">> ) @@
  ( "Function"       :> <<"f","u","n","c","t","i","o","n">> ) @@
  ( "Return"         :> <<"r","e","t","u","r","n">> ) @@
  ( "If"             :> <<"i","f">> ) @@
  ( "Else"           :> <<"e","l","s","e">> ) @@
  ( "For"            :> <<"f","o","r">> ) @@
  ( "Continue"       :> <<"c","o","n","t","i","n","u","e">> ) @@
  ( "Break"          :> <<"b","r","e","a","k">> ) @@
  ( "EndOfInput"     :>
      <<"<","E","n","d","-","O","f","-","I","n","p","u","t",">">> )

\* variant: the entry of `else` repeats the kind of the entry before it
keywordMapElseIf ==
  ( <<"i","n","t">>                     :> "Int"      ) @@
  ( <<"d","o","u","b","l","e">>         :> "Double"   ) @@
  ( <<"s","t","r","i","n","g">>         :> "String"   ) @@
  ( <<"f","u","n","c","t","i","o","n">> :> "Function" ) @@
  ( <<"r","e","t","u","r","n">>         :> "Return"   ) @@
  ( <<"i","f">>                         :> "If"       ) @@
  ( <<"e","l","s","e">>                 :> "If"       ) @@
  ( <<"f","o","r">>                     :> "For"      ) @@
  ( <<"c","o","n","t","i","n","u","e">> :> "Continue" ) @@
  ( <<"b","r","e","a","k">>             :> "Break"    )

keywordMap ==
  ( <<"i","n","t">>                     :> "Int"      ) @@
  ( <<"d","o","u","b","l","e">>         :> "Double"   ) @@
  ( <<"s","t","r","i","n","g">>         :> "String"   ) @@
  ( <<"f","u","n","c","t","i","o","n">> :> "Function" ) @@
  ( <<"r","e","t","u","r","n">>         :> "Return"   ) @@
  ( <<"i","f">>                         :> "If"       ) @@
  ( <<"e","l","s","e">>                 :> "Else"     ) @@
  ( <<"f","o","r">>                     :> "For"      ) @@
  ( <<"c","o","n","t","i","n","u","e">> :> "Continue" ) @@
  ( <<"b","r","e","a","k">>             :> "Break"    )

\* Token { type, value, line, column }: the aggregate initialisers of the
\* lexer name at most type and value, the rest is value-initialised.
Token(type, value) ==
  [type |-> type, value |-> value, line |-> 0, column |-> 0]

(***************************************************************************)
(* Pure helpers of Lexer::next(), identifier() and number().               *)
(***************************************************************************)
Min(a, b) == IF a < b THEN a ELSE b

\* m_source[k]
CharAt(s, k) == s[k + 1]

\* variant: the length of the lexeme is one short
SubstrShort(s, pos, n) == SubSeq(s, pos + 1, Min(pos + n - 1, Len(s)))

\* variant: the lexeme is cut as in src/lexer.cpp:112, string(m_source, pos, 1)
SubstrOne(s, pos, n) == SubSeq(s, pos + 1, Min(pos + 1, Len(s)))

\* std::string(m_source, pos, n): at most n characters from position pos
Substr(s, pos, n) == SubSeq(s, pos + 1, Min(pos + n, Len(s)))

\* variant: the bound of the look-ahead is off by one
LookAheadShort(s, pos) ==
  IF pos + 2 < Len(s) THEN CharAt(s, pos + 1) ELSE NUL

\* the one-character look-ahead `next` of line 146
LookAhead(s, pos) == IF pos + 1 < Len(s) THEN CharAt(s, pos + 1) ELSE NUL

\* variant: the tab is not skipped
IsWhitespaceNoTab(ch) == ch = " " \/ ch = "\n" \/ ch = "\r"

\* the test of line 153
IsWhitespace(ch) == ch = " " \/ ch = "\n" \/ ch = "\r" \/ ch = "\t"

\* variant: the second slash is not tested
IsCommentStartSlash(s, ch, nxt, pos) == ch = "/" /\ pos < Len(s)

\* the test of line 159; pos is m_pos after the increment of line 150
IsCommentStart(s, ch, nxt, pos) == ch = "/" /\ pos < Len(s) /\ nxt = "/"

\* the condition of the comment loop of line 162, after its ++m_pos
InComment(s, pos) == pos < Len(s) /\ CharAt(s, pos) # "\n"

\* variant: identifier() reads letters only
IdentifierMoreAlpha(s, pos) == pos < Len(s) /\ isalpha(CharAt(s, pos))

\* variant: the look-ahead is read without the test of its index
LoopReadsUnguarded(s, pos) == {pos, pos + 1}

\* the indices lines 145-146 read: m_source[m_pos] and, behind the test of
\* its index, m_source[m_pos + 1]
LoopReads(s, pos) == {pos} \cup (IF pos + 1 < Len(s) THEN {pos + 1} ELSE {})

\* the index the loop conditions of lines 162, 254 and 271 read: m_source[pos]
\* behind the test pos < length
TestReads(s, pos) == IF pos < Len(s) THEN {pos} ELSE {}

\* the loop condition of identifier(), line 254
IdentifierMore(s, pos) == pos < Len(s) /\ isalnum(CharAt(s, pos))

\* variant: number() reads letters as well
NumberMoreAlnum(s, pos) == pos < Len(s) /\ isalnum(CharAt(s, pos))

\* the loop condition of number(), line 271
NumberMore(s, pos) == pos < Len(s) /\ isnumber(CharAt(s, pos))

\* the switch of lines 175-239: the token type and by how much m_pos moves
MatchOperator(ch, nxt) ==
  CASE ch = "=" -> IF nxt = "=" THEN [type |-> "Equal", adv |-> 1]
                                ELSE [type |-> "Assign", adv |-> 0]
    [] ch = "*" -> [type |-> "Multiply", adv |-> 0]
    [] ch = "/" -> [type |-> "Divide", adv |-> 0]
    [] ch = "+" -> [type |-> "Plus", adv |-> 0]
    [] ch = "-" -> [type |-> "Minus", adv |-> 0]
    [] ch = ">" -> IF nxt = "=" THEN [type |-> "GreaterEqual", adv |-> 1]
                                ELSE [type |-> "Greater", adv |-> 0]
    [] ch = "<" -> IF nxt = "=" THEN [type |-> "LesserEqual", adv |-> 1]
                                ELSE [type |-> "Lesser", adv |-> 0]
    [] ch = "{" -> [type |-> "BraceOpen", adv |-> 0]
    [] ch = "}" -> [type |-> "BraceClose", adv |-> 0]
    [] ch = "(" -> [type |-> "ParenOpen", adv |-> 0]
    [] ch = ")" -> [type |-> "ParenClose", adv |-> 0]
    [] ch = "," -> [type |-> "Comma", adv |-> 0]
    [] ch = ":" -> [type |-> "Colon", adv |-> 0]
    [] ch = ";" -> [type |-> "SemiColon", adv |-> 0]
    [] OTHER    -> [type |-> "Invalid", adv |-> 0]

(***************************************************************************)
(* Input families.                                                         *)
(***************************************************************************)
\* every string over A of length at most n
Strings(A, n) == UNION {[1..k -> A] : k \in 0..n}

\* the two letters of the keyword `if`, an upper-case letter, a digit, two of
\* the look-ahead operators, the slash, two whitespace characters and a
\* character of no token
MixChars ==
  {"i", "f", "I", "1", "=", ">", "/", " ", "\n", "#"}

\* every character the code of next() names, and samples of the other classes
FullChars ==
  { " ", "\n", "\r", "\t", "/", "=", "*", "+", "-", ">", "<", "{", "}", "(",
    ")", ",", ":", ";", "a", "Z", "0", "9", "#", "\"", ".", "_", "!", NUL }

\* the characters that decide what is skipped, a letter and an operator
SkipChars == {"/", " ", "\n", "a", "="}

\* the characters of the two-instance specification: a letter, a digit, the
\* slash (an operator, and two of them a comment) and the LF
PairChars == {"i", "1", "/", "\n"}

ToUpper(c) ==
  IF c \in Range(LowerSeq)
    THEN UpperSeq[CHOOSE k \in DOMAIN LowerSeq : LowerSeq[k] = c]
    ELSE c

\* every reserved spelling, and its near misses: a strict prefix, the
\* spelling followed by a letter or a digit, with an upper-case initial,
\* followed by a blank and a near miss, and followed by an operator
KeywordSources ==
  UNION { { kw,
            SubSeq(kw, 1, Len(kw) - 1),
            kw \o <<"f">>,
            kw \o <<"1">>,
            <<ToUpper(kw[1])>> \o Tail(kw),
            kw \o <<" ">> \o kw \o <<"f">>,
            kw \o <<"=", "=">> \o kw } : kw \in DOMAIN keywordMap }

\* the source text of main()
MainSource ==
  <<
    "f","u","n","c","t","i","o","n"," ","f","i","b","(","i","n","t"," ","n",
    ")"," ",":"," ","i","n","t"," ","{","\n"," "," "," "," ","i","f"," ",
    "(","n"," ","=","="," ","0",")"," ","r","e","t","u","r","n"," ","0",";",
    "\n"," "," "," "," ","e","l","s","e"," ","i","f"," ","(","n"," ","=",
    "="," ","1",")"," ","r","e","t","u","r","n"," ","1",";","\n"," "," ",
    " "," ","r","e","t","u","r","n"," ","f","i","b","(","n"," ","-"," ","1",
    ")"," ","+"," ","f","i","b","(","n"," ","-"," ","2",")",";","\n","}",
    "\n","f","u","n","c","t","i","o","n"," ","m","a","i","n","(",")"," ",
    "{","\n"," "," "," "," ","p","r","i","n","t","(","\"","f","i","b","o",
    "n","a","c","c","i"," ","1","0"," ","="," ","\"",","," ","f","i","b",
    "(","1","0",")",")",";","\n","}">>

\* the source texts of the scenarios of the specification
ScenarioSources ==
  { <<"r","a","d"," ","="," ","/","/"," ","c","a","l","c","\n",
      "p","i"," ","/"," ","1","8","0">>,
    <<"a","=","=","b">>,
    <<"#">>,
    << >>,
    <<"f","u","n","c","t","i","o","n"," ","f","i","b","(","i","n","t"," ",
      "n",")"," ",":"," ","i","n","t"," ","{"," ","r","e","t","u","r","n",
      " ","1",";"," ","}">> }

\* a signed number, digits followed by letters, a number with a decimal
\* point and a quoted string
LiteralSources ==
  { <<"-","1","2">>,
    <<"1","a","b">>,
    <<"1",".","5">>,
    <<"\"","h","i","\"">> }

Sources ==
  Strings(MixChars, MaxLen) \cup Strings(FullChars, MaxFullLen)
    \cup Strings(SkipChars, MaxSkipLen) \cup KeywordSources
    \cup ScenarioSources \cup LiteralSources \cup {MainSource}

PairSources == Strings(PairChars, MaxPairLen)

\* the characters of the specification of the two lexer variants: the letters
\* of `if`, a digit, the look-ahead operators, the slash, the LF and a
\* character of no token
CoarseChars == {"i", "f", "1", "=", ">", "<", "/", "\n", "#"}

\* the source text of main() of src/lexer.cpp
SimpleMainSource ==
  <<
    "r","a","d"," ","="," ","/","/"," ","c","a","l","c","u","l","a","t","e",
    " ","1"," ","r","a","d","i","i","\n","p","i"," ","/"," ","1","8","0" >>

CoarseSources ==
  Strings(CoarseChars, MaxCoarseLen) \cup ScenarioSources
    \cup LiteralSources \cup {MainSource, SimpleMainSource}

(***************************************************************************)
(* State.                                                                  *)
(***************************************************************************)
VARIABLES
  m_source,  \* m_source[i]: the source text of Lexer i
  m_pos,     \* m_pos[i]: current read position
  m_start,   \* m_start[i]: current token start position
  pc,        \* pc[i]: where Lexer i is: "idle" between two calls of next(),
             \*   "loop" at the head of the while loop of next(), "comment"
             \*   in the comment loop, "identifier" / "number" in the sub-scan
  keywords,  \* the global keywordMap object, shared by every Lexer
  tokens,    \* tokens[i]: the tokens next() has returned so far, in order
  reads,     \* reads[i]: the indices of m_source[i] the code has read so far
  simple,    \* simple[i]: the Lexer of src/lexer.cpp constructed from the text
             \*   of m_source[i], where there is one: its m_pos and m_start,
             \*   the tokens it has returned and the spans it has passed
  spans      \* spans[i]: what the cursor has passed over so far, in order:
             \*   the returned lexemes and the skipped whitespace and comments

vars ==
  << m_source, m_pos, m_start, pc, keywords, tokens, reads, simple, spans >>

Lexers == DOMAIN pc

\* the keyword lookup of identifier(), lines 258-262: keywordMap.find(lexeme)
KeywordType(lexeme) ==
  IF lexeme \in DOMAIN keywords THEN keywords[lexeme] ELSE "Identifier"

Span(kind, s, start, pos) ==
  [kind |-> kind, start |-> start, end |-> pos,
   text |-> Substr(s, start, pos - start), type |-> kind]

TokenSpan(tok, start, pos) ==
  [kind |-> "token", start |-> start, end |-> pos,
   text |-> tok.value, type |-> tok.type]

EndCalls(i) ==
  Cardinality({k \in 1..Len(tokens[i]) : tokens[i][k].type = "EndOfInput"})

(***************************************************************************)
(* Lexer::Lexer(source) for every instance of I, sources drawn from S.     *)
(***************************************************************************)
Construct(I, S) ==
  /\ m_source \in [I -> S]
  /\ keywords = keywordMap
  /\ m_pos = [i \in I |-> 0]
  /\ m_start = [i \in I |-> 0]
  /\ pc = [i \in I |-> "idle"]
  /\ tokens = [i \in I |-> << >>]
  /\ reads = [i \in I |-> {}]
  /\ simple = << >>
  /\ spans = [i \in I |-> << >>]

(***************************************************************************)
(* Steps of Lexer::next().                                                 *)
(***************************************************************************)
\* `return { type, value }` of a token that is not EndOfInput
ReturnToken(i, tok, pos) ==
  /\ tokens' = [tokens EXCEPT ![i] = Append(@, tok)]
  /\ spans' = [spans EXCEPT ![i] = Append(@, TokenSpan(tok, m_start'[i], pos))]
  /\ pc' = [pc EXCEPT ![i] = "idle"]

\* `return { TokenType::EndOfInput, ... }`
ReturnEnd(i) ==
  /\ tokens' = [tokens EXCEPT ![i] = Append(@, Token("EndOfInput", << >>))]
  /\ pc' = [pc EXCEPT ![i] = "idle"]
  /\ UNCHANGED << m_pos, m_start, reads, spans >>

\* the caller calls next(); lines 135-138
Enter(i) ==
  /\ pc[i] = "idle"
  /\ EndCalls(i) < MaxEndCalls
  /\ IF Len(m_source[i]) = 0
       THEN ReturnEnd(i)
       ELSE /\ pc' = [pc EXCEPT ![i] = "loop"]
            /\ UNCHANGED << m_pos, m_start, tokens, reads, spans >>
  /\ UNCHANGED << m_source, keywords, simple, keywords >>

\* variant: the end of the input rewinds the cursor
LoopExitRewind(i) ==
  /\ pc[i] = "loop"
  /\ ~(m_pos[i] < Len(m_source[i]))
  /\ tokens' = [tokens EXCEPT ![i] = Append(@, Token("EndOfInput", << >>))]
  /\ pc' = [pc EXCEPT ![i] = "idle"]
  /\ m_pos' = [m_pos EXCEPT ![i] = 0]
  /\ UNCHANGED << m_source, keywords, simple, m_start, reads, spans >>

\* the loop condition of line 142 fails: lines 243-244
LoopExit(i) ==
  /\ pc[i] = "loop"
  /\ ~(m_pos[i] < Len(m_source[i]))
  /\ ReturnEnd(i)
  /\ UNCHANGED << m_source, keywords, simple, keywords >>

\* variant: the token start is not set
AdvanceKeepStart(i) ==
  /\ pc[i] = "loop"
  /\ m_pos[i] < Len(m_source[i])
  /\ m_start' = m_start
  /\ reads' = [reads EXCEPT ![i] = @ \cup LoopReads(m_source[i], m_pos[i])]

\* lines 145-150, common to every iteration of the while loop
Advance(i) ==
  /\ pc[i] = "loop"
  /\ m_pos[i] < Len(m_source[i])
  /\ m_start' = [m_start EXCEPT ![i] = m_pos[i]]
  /\ reads' = [reads EXCEPT ![i] = @ \cup LoopReads(m_source[i], m_pos[i])]

\* line 153
SkipWhitespace(i) ==
  LET s  == m_source[i]
      ch == CharAt(s, m_pos[i])
  IN /\ Advance(i)
     /\ IsWhitespace(ch)
     /\ m_pos' = [m_pos EXCEPT ![i] = @ + 1]
     /\ spans' = [spans EXCEPT
                    ![i] = Append(@, Span("space", s, m_pos[i], m_pos[i] + 1))]
     /\ UNCHANGED << m_source, keywords, simple, pc, tokens >>

\* line 159: the comment is recognised, the loop of line 162 is entered
EnterComment(i) ==
  LET s   == m_source[i]
      ch  == CharAt(s, m_pos[i])
      nxt == LookAhead(s, m_pos[i])
  IN /\ Advance(i)
     /\ ~IsWhitespace(ch)
     /\ IsCommentStart(s, ch, nxt, m_pos[i] + 1)
     /\ m_pos' = [m_pos EXCEPT ![i] = @ + 1]
     /\ pc' = [pc EXCEPT ![i] = "comment"]
     /\ UNCHANGED << m_source, keywords, simple, tokens, spans >>

\* variant: the comment loop tests m_pos without incrementing it
CommentStepStuck(i) ==
  LET s == m_source[i]
  IN /\ pc[i] = "comment"
     /\ IF InComment(s, m_pos[i])
          THEN UNCHANGED << pc, spans >>
          ELSE /\ pc' = [pc EXCEPT ![i] = "loop"]
               /\ spans' = [spans EXCEPT
                    ![i] = Append(@, Span("comment", s, m_start[i], m_pos[i]))]
     /\ reads' = [reads EXCEPT ![i] = @ \cup TestReads(s, m_pos[i])]
     /\ UNCHANGED << m_source, keywords, simple, m_pos, m_start, tokens >>

\* one evaluation of the condition of `while (++m_pos < len && ... != '\n');`
\* and, when it fails, the `continue` of line 163
CommentStep(i) ==
  LET s == m_source[i]
  IN /\ pc[i] = "comment"
     /\ m_pos' = [m_pos EXCEPT ![i] = @ + 1]
     /\ IF InComment(s, m_pos'[i])
          THEN UNCHANGED << pc, spans >>
          ELSE /\ pc' = [pc EXCEPT ![i] = "loop"]
               /\ spans' = [spans EXCEPT
                    ![i] = Append(@, Span("comment", s, m_start[i], m_pos'[i]))]
     /\ reads' = [reads EXCEPT ![i] = @ \cup TestReads(s, m_pos'[i])]
     /\ UNCHANGED << m_source, keywords, simple, m_start, tokens >>

\* line 167: isalpha(ch), identifier() is called
EnterIdentifier(i) ==
  LET s   == m_source[i]
      ch  == CharAt(s, m_pos[i])
      nxt == LookAhead(s, m_pos[i])
  IN /\ Advance(i)
     /\ ~IsWhitespace(ch)
     /\ ~IsCommentStart(s, ch, nxt, m_pos[i] + 1)
     /\ isalpha(ch)
     /\ m_pos' = [m_pos EXCEPT ![i] = @ + 1]
     /\ pc' = [pc EXCEPT ![i] = "identifier"]
     /\ UNCHANGED << m_source, keywords, simple, tokens, spans >>

\* one iteration of the loop of identifier(), line 254
IdentifierStep(i) ==
  /\ pc[i] = "identifier"
  /\ IdentifierMore(m_source[i], m_pos[i])
  /\ m_pos' = [m_pos EXCEPT ![i] = @ + 1]
  /\ reads' = [reads EXCEPT ![i] = @ \cup TestReads(m_source[i], m_pos[i])]
  /\ UNCHANGED << m_source, keywords, simple, m_start, pc, tokens, spans >>

\* variant: the lookup is keywordMap[lexeme], which inserts a missing key with
\* the first TokenType
IdentifierReturnInsert(i) ==
  LET s      == m_source[i]
      lexeme == Substr(s, m_start[i], m_pos[i] - m_start[i])
  IN /\ pc[i] = "identifier"
     /\ ~IdentifierMore(s, m_pos[i])
     /\ keywords' = IF lexeme \in DOMAIN keywords
                       THEN keywords
                       ELSE keywords @@ (lexeme :> "Invalid")
     /\ reads' = [reads EXCEPT ![i] = @ \cup TestReads(s, m_pos[i])]
     /\ UNCHANGED << m_source, simple, m_pos, m_start >>
     /\ ReturnToken(i, Token(IF keywords'[lexeme] # "Invalid"
                                THEN keywords'[lexeme]
                                ELSE "Identifier", lexeme), m_pos[i])

\* the loop of identifier() is left: lines 255-262
IdentifierReturn(i) ==
  LET s      == m_source[i]
      lexeme == Substr(s, m_start[i], m_pos[i] - m_start[i])
  IN /\ pc[i] = "identifier"
     /\ ~IdentifierMore(s, m_pos[i])
     /\ reads' = [reads EXCEPT ![i] = @ \cup TestReads(s, m_pos[i])]
     /\ UNCHANGED << m_source, keywords, simple, m_pos, m_start >>
     /\ ReturnToken(i, Token(KeywordType(lexeme), lexeme), m_pos[i])

\* line 170: isnumber(ch), number() is called
EnterNumber(i) ==
  LET s   == m_source[i]
      ch  == CharAt(s, m_pos[i])
      nxt == LookAhead(s, m_pos[i])
  IN /\ Advance(i)
     /\ ~IsWhitespace(ch)
     /\ ~IsCommentStart(s, ch, nxt, m_pos[i] + 1)
     /\ ~isalpha(ch)
     /\ isnumber(ch)
     /\ m_pos' = [m_pos EXCEPT ![i] = @ + 1]
     /\ pc' = [pc EXCEPT ![i] = "number"]
     /\ UNCHANGED << m_source, keywords, simple, tokens, spans >>

\* one iteration of the loop of number(), line 271
NumberStep(i) ==
  /\ pc[i] = "number"
  /\ NumberMore(m_source[i], m_pos[i])
  /\ m_pos' = [m_pos EXCEPT ![i] = @ + 1]
  /\ reads' = [reads EXCEPT ![i] = @ \cup TestReads(m_source[i], m_pos[i])]
  /\ UNCHANGED << m_source, keywords, simple, m_start, pc, tokens, spans >>

\* variant: digits followed by a decimal point are returned as FloatLiteral
NumberReturnFloat(i) ==
  LET s      == m_source[i]
      lexeme == Substr(s, m_start[i], m_pos[i] - m_start[i])
      type   == IF LookAhead(s, m_pos[i] - 1) = "."
                  THEN "FloatLiteral" ELSE "IntegerLiteral"
  IN /\ pc[i] = "number"
     /\ ~NumberMore(s, m_pos[i])
     /\ reads' = [reads EXCEPT ![i] = @ \cup TestReads(s, m_pos[i])]
     /\ UNCHANGED << m_source, keywords, simple, m_pos, m_start >>
     /\ ReturnToken(i, Token(type, lexeme), m_pos[i])

\* the loop of number() is left: line 274
NumberReturn(i) ==
  LET s      == m_source[i]
      lexeme == Substr(s, m_start[i], m_pos[i] - m_start[i])
  IN /\ pc[i] = "number"
     /\ ~NumberMore(s, m_pos[i])
     /\ reads' = [reads EXCEPT ![i] = @ \cup TestReads(s, m_pos[i])]
     /\ UNCHANGED << m_source, keywords, simple, m_pos, m_start >>
     /\ ReturnToken(i, Token("IntegerLiteral", lexeme), m_pos[i])

\* variant: the cursor is one variable shared by every Lexer
OperatorShared(i) ==
  LET s   == m_source[i]
      ch  == CharAt(s, m_pos[i])
      nxt == LookAhead(s, m_pos[i])
      op  == MatchOperator(ch, nxt)
      pos == m_pos[i] + 1 + op.adv
  IN /\ Advance(i)
     /\ ~IsWhitespace(ch)
     /\ ~IsCommentStart(s, ch, nxt, m_pos[i] + 1)
     /\ ~isalpha(ch)
     /\ ~isnumber(ch)
     /\ m_pos' = [j \in Lexers |-> pos]
     /\ ReturnToken(i, Token(op.type, Substr(s, m_start'[i], pos - m_start'[i])), pos)
     /\ UNCHANGED << m_source, keywords, simple, keywords >>

\* lines 174-240: the operator switch and the return that follows it
Operator(i) ==
  LET s   == m_source[i]
      ch  == CharAt(s, m_pos[i])
      nxt == LookAhead(s, m_pos[i])
      op  == MatchOperator(ch, nxt)
      pos == m_pos[i] + 1 + op.adv
  IN /\ Advance(i)
     /\ ~IsWhitespace(ch)
     /\ ~IsCommentStart(s, ch, nxt, m_pos[i] + 1)
     /\ ~isalpha(ch)
     /\ ~isnumber(ch)
     /\ m_pos' = [m_pos EXCEPT ![i] = pos]
     /\ ReturnToken(i, Token(op.type, Substr(s, m_start'[i], pos - m_start'[i])), pos)
     /\ UNCHANGED << m_source, keywords, simple, keywords >>

Step(i) ==
  \/ Enter(i)
  \/ LoopExit(i)
  \/ SkipWhitespace(i)
  \/ EnterComment(i)
  \/ CommentStep(i)
  \/ EnterIdentifier(i)
  \/ IdentifierStep(i)
  \/ IdentifierReturn(i)
  \/ EnterNumber(i)
  \/ NumberStep(i)
  \/ NumberReturn(i)
  \/ Operator(i)

Next == \E i \in Lexers : Step(i)

(***************************************************************************)
(* The Lexer of src/lexer.cpp: one step is one whole call of its next().   *)
(***************************************************************************)
\* Token { kind, value } of src/lexer.cpp
SimpleToken(kind, value) == [kind |-> kind, value |-> value]

\* the test of line 82
SimpleIsWhitespace(ch) == ch = " " \/ ch = "\n" \/ ch = "\r" \/ ch = "\t"

\* the test of line 85; pos is m_pos after the increment of line 79
SimpleIsCommentStart(s, ch, pos) ==
  ch = "/" /\ pos < Len(s) /\ CharAt(s, pos) = "/"

RECURSIVE SimpleCommentEnd(_, _)
\* where the comment loop of line 88 leaves m_pos, pos being ++m_pos
SimpleCommentEnd(s, pos) ==
  IF pos < Len(s) /\ CharAt(s, pos) # "\n"
    THEN SimpleCommentEnd(s, pos + 1)
    ELSE pos

RECURSIVE SimpleIdentifierEnd(_, _)
\* where the loop of identifier(), line 126, leaves m_pos
SimpleIdentifierEnd(s, pos) ==
  IF pos < Len(s) /\ isalnum(CharAt(s, pos))
    THEN SimpleIdentifierEnd(s, pos + 1)
    ELSE pos

RECURSIVE SimpleNumberEnd(_, _)
\* where the loop of number(), line 138, leaves m_pos
SimpleNumberEnd(s, pos) ==
  IF pos < Len(s) /\ isnumber(CharAt(s, pos))
    THEN SimpleNumberEnd(s, pos + 1)
    ELSE pos

\* variant: the switch has no case for the slash
SimpleKindNoDivide(ch) == IF ch = "=" THEN "Assign" ELSE "Invalid"

\* the switch of lines 101-111
SimpleKind(ch) ==
  CASE ch = "=" -> "Assign"
    [] ch = "/" -> "Divide"
    [] OTHER    -> "Invalid"

RECURSIVE SimpleLoop(_, _, _, _)
\* the while loop of lines 72-116 from m_pos = pos and m_start = start on:
\* the returned token, the cursor it leaves and the spans it has skipped
SimpleLoop(s, pos, start, skipped) ==
  IF ~(pos < Len(s))
    THEN [tok |-> SimpleToken("EndOfInput", << >>),
          m_pos |-> pos, m_start |-> start, skipped |-> skipped]
    ELSE
      LET ch == CharAt(s, pos)
          ce == SimpleCommentEnd(s, pos + 2)
          ie == SimpleIdentifierEnd(s, pos + 1)
          ne == SimpleNumberEnd(s, pos + 1)
      IN CASE SimpleIsWhitespace(ch) ->
                SimpleLoop(s, pos + 1, pos,
                           Append(skipped, Span("space", s, pos, pos + 1)))
           [] ~SimpleIsWhitespace(ch)
                /\ SimpleIsCommentStart(s, ch, pos + 1) ->
                SimpleLoop(s, ce, pos,
                           Append(skipped, Span("comment", s, pos, ce)))
           [] OTHER ->
                IF isalpha(ch)
                  THEN [tok |-> SimpleToken("Identifier",
                                            Substr(s, pos, ie - pos)),
                        m_pos |-> ie, m_start |-> pos, skipped |-> skipped]
                  ELSE IF isnumber(ch)
                    THEN [tok |-> SimpleToken("Number",
                                              Substr(s, pos, ne - pos)),
                          m_pos |-> ne, m_start |-> pos, skipped |-> skipped]
                    ELSE [tok |-> SimpleToken(SimpleKind(ch),
                                              Substr(s, pos, 1)),
                          m_pos |-> pos + 1, m_start |-> pos,
                          skipped |-> skipped]

SimpleEndCalls(i) ==
  Cardinality({k \in 1..Len(simple[i].tokens) :
                 simple[i].tokens[k].kind = "EndOfInput"})

\* Lexer::Lexer(source) of src/lexer.cpp, lines 58-59
SimpleConstruct(I) ==
  simple = [i \in I |-> [m_pos |-> 0, m_start |-> 0,
                         tokens |-> << >>, spans |-> << >>]]

\* one call of next() of src/lexer.cpp, lines 62-117
SimpleNext(i) ==
  /\ i \in DOMAIN simple
  /\ SimpleEndCalls(i) < MaxEndCalls
  /\ LET s  == m_source[i]
         me == simple[i]
         r  == IF Len(s) = 0
                 THEN [tok |-> SimpleToken("EndOfInput", << >>),
                       m_pos |-> me.m_pos, m_start |-> me.m_start,
                       skipped |-> << >>]
                 ELSE SimpleLoop(s, me.m_pos, me.m_start, << >>)
         returned == IF r.tok.kind = "EndOfInput"
                       THEN << >>
                       ELSE << [kind |-> "token", start |-> r.m_start,
                                end |-> r.m_pos, text |-> r.tok.value,
                                type |-> r.tok.kind] >>
     IN simple' = [simple EXCEPT
                     ![i] = [m_pos |-> r.m_pos, m_start |-> r.m_start,
                             tokens |-> Append(me.tokens, r.tok),
                             spans |-> me.spans \o r.skipped \o returned]]
  /\ UNCHANGED << m_source, m_pos, m_start, pc, keywords, tokens, reads, spans >>

(***************************************************************************)
(* The calls of next() on one Lexer that no other Lexer runs beside: the   *)
(* loops of the code unrolled from a cursor position to the first          *)
(* EndOfInput.                                                             *)
(***************************************************************************)
RECURSIVE CommentEnd(_, _)
\* where the comment loop of line 162 leaves m_pos, pos being ++m_pos
CommentEnd(s, pos) == IF InComment(s, pos) THEN CommentEnd(s, pos + 1) ELSE pos

RECURSIVE IdentifierEnd(_, _)
\* where the loop of identifier() leaves m_pos
IdentifierEnd(s, pos) ==
  IF IdentifierMore(s, pos) THEN IdentifierEnd(s, pos + 1) ELSE pos

RECURSIVE NumberEnd(_, _)
\* where the loop of number() leaves m_pos
NumberEnd(s, pos) == IF NumberMore(s, pos) THEN NumberEnd(s, pos + 1) ELSE pos

RECURSIVE ScanFrom(_, _)
\* the tokens returned from cursor position pos on
ScanFrom(s, pos) ==
  IF ~(pos < Len(s))
    THEN << Token("EndOfInput", << >>) >>
    ELSE LET ch  == CharAt(s, pos)
             nxt == LookAhead(s, pos)
             op  == MatchOperator(ch, nxt)
             ie  == IdentifierEnd(s, pos + 1)
             ne  == NumberEnd(s, pos + 1)
             oe  == pos + 1 + op.adv
         IN CASE IsWhitespace(ch) -> ScanFrom(s, pos + 1)
              [] ~IsWhitespace(ch) /\ IsCommentStart(s, ch, nxt, pos + 1) ->
                   ScanFrom(s, CommentEnd(s, pos + 2))
              [] OTHER ->
                   IF isalpha(ch)
                     THEN << Token(KeywordType(Substr(s, pos, ie - pos)),
                                   Substr(s, pos, ie - pos)) >>
                            \o ScanFrom(s, ie)
                     ELSE IF isnumber(ch)
                       THEN << Token("IntegerLiteral",
                                     Substr(s, pos, ne - pos)) >>
                              \o ScanFrom(s, ne)
                       ELSE << Token(op.type, Substr(s, pos, oe - pos)) >>
                              \o ScanFrom(s, oe)

\* the tokens of a Lexer constructed from s, up to the first EndOfInput
ScanAlone(s) == ScanFrom(s, 0)

(***************************************************************************)
(* Specifications.                                                         *)
(***************************************************************************)
\* one Lexer, over every source of the input families
Init == Construct({1}, Sources)

Spec == Init /\ [][Next]_vars

\* the same, the code of next() running to completion once it is called and
\* the caller of main() calling again until it sees EndOfInput
LiveSpec == Init /\ [][Next]_vars /\ WF_vars(Next)

\* two Lexers stepped in every interleaving
PairInit == Construct({1, 2}, PairSources)

PairSpec == PairInit /\ [][Next]_vars

\* one Lexer of src/lexer-advanced.cpp and one of src/lexer.cpp over the same
\* text, stepped in every interleaving
CoarseInit ==
  /\ m_source \in [{1} -> CoarseSources]
  /\ m_pos = [i \in {1} |-> 0]
  /\ m_start = [i \in {1} |-> 0]
  /\ pc = [i \in {1} |-> "idle"]
  /\ keywords = keywordMap
  /\ tokens = [i \in {1} |-> << >>]
  /\ reads = [i \in {1} |-> {}]
  /\ spans = [i \in {1} |-> << >>]
  /\ SimpleConstruct({1})

CoarseNext == \E i \in Lexers : Step(i) \/ SimpleNext(i)

CoarseSpec == CoarseInit /\ [][CoarseNext]_vars

(***************************************************************************)
(* Vocabulary of the properties.                                           *)
(***************************************************************************)
EndToken == Token("EndOfInput", << >>)

\* next() has returned EndOfInput at least once on Lexer i
SeenEnd(i) == \E k \in 1..Len(tokens[i]) : tokens[i][k].type = "EndOfInput"

LastToken(i) == tokens[i][Len(tokens[i])]

\* a call of next() on Lexer i returns in this step
Returns(i) == tokens'[i] # tokens[i]

\* the texts of a sequence of spans, one after the other
RECURSIVE Concat(_)
Concat(sp) == IF sp = << >> THEN << >> ELSE Head(sp).text \o Concat(Tail(sp))

\* the spans of the returned tokens
TokenSpans(i) == SelectSeq(spans[i], LAMBDA x : x.kind = "token")

SpanKinds(i) == {spans[i][k].kind : k \in 1..Len(spans[i])}

(***************************************************************************)
(* C1  Totality: every call of next() returns exactly one token, and on    *)
(* every source the calls of the caller loop reach a call that returns     *)
(* EndOfInput; no call runs forever.                                       *)
(***************************************************************************)
C1_Totality ==
  /\ [][Len(tokens'[1]) =
          Len(tokens[1]) + (IF pc'[1] = "idle" THEN 1 ELSE 0)]_vars
  /\ <>(pc[1] = "idle" /\ SeenEnd(1))

\* a scan over whitespace, a comment and two tokens has reached EndOfInput
C1_Witness ==
  /\ pc[1] = "idle"
  /\ SeenEnd(1)
  /\ Len(tokens[1]) >= 3
  /\ {"space", "comment"} \subseteq SpanKinds(1)

(***************************************************************************)
(* C2  End of input is terminal: once next() has returned EndOfInput,      *)
(* every later call returns EndOfInput with an empty lexeme and the cursor *)
(* m_pos does not move any more.                                           *)
(***************************************************************************)
C2_EndIsTerminal ==
  [][\A i \in Lexers :
       SeenEnd(i) =>
         /\ m_pos'[i] = m_pos[i]
         /\ Returns(i) => tokens'[i] = Append(tokens[i], EndToken)]_vars

\* EndOfInput was returned a second time, after a scan that returned tokens
C2_Witness ==
  /\ pc[1] = "idle"
  /\ EndCalls(1) >= 2
  /\ Len(tokens[1]) >= 4
  /\ m_pos[1] = Len(m_source[1])

(***************************************************************************)
(* C3  Coverage: the returned lexemes and the skipped whitespace and       *)
(* comment spans, concatenated in order, are the part of the source the    *)
(* cursor has passed, and the whole source once EndOfInput is returned;    *)
(* the spans follow each other without gap or overlap.                     *)
(***************************************************************************)
Contiguous(sp, from, to) ==
  /\ \A k \in 1..Len(sp) : sp[k].start < sp[k].end
  /\ \A k \in 1..Len(sp) - 1 : sp[k].end = sp[k + 1].start
  /\ IF sp = << >> THEN from = to
                   ELSE sp[1].start = from /\ sp[Len(sp)].end = to

C3_Coverage ==
  \A i \in Lexers :
    /\ pc[i] \in {"idle", "loop"} =>
         /\ Concat(spans[i]) = SubSeq(m_source[i], 1, m_pos[i])
         /\ Contiguous(spans[i], 0, m_pos[i])
    /\ SeenEnd(i) => Concat(spans[i]) = m_source[i]

\* a finished scan that passed a two-character lexeme, whitespace and a
\* comment
C3_Witness ==
  /\ SeenEnd(1)
  /\ {"space", "comment"} \subseteq SpanKinds(1)
  /\ \E k \in 1..Len(spans[1]) :
       spans[1][k].kind = "token" /\ Len(spans[1][k].text) = 2

(***************************************************************************)
(* Vocabulary of the properties about one returned token.                  *)
(***************************************************************************)
\* the token returned in this step
NewToken(i) == tokens'[i][Len(tokens'[i])]

\* a call of next() on Lexer i returns a token other than EndOfInput
ReturnsToken(i) == Returns(i) /\ NewToken(i).type # "EndOfInput"

\* the character the returned token starts at
FirstChar(i) == CharAt(m_source[i], m_start'[i])

Types(toks) == [k \in 1..Len(toks) |-> toks[k].type]

Alphabetic(c) == c \in Range(LowerSeq) \cup Range(UpperSeq)

Decimal(c) == c \in {"0","1","2","3","4","5","6","7","8","9"}

(***************************************************************************)
(* C4  Lexeme invariant: a returned token other than EndOfInput carries    *)
(* the source text of [m_start, m_pos) as the cursor stands at the return; *)
(* it starts after the start and not before the end of every lexeme        *)
(* returned before it.                                                     *)
(***************************************************************************)
C4_LexemeIsCursorSpan ==
  [][\A i \in Lexers :
       ReturnsToken(i) =>
         LET last == spans'[i][Len(spans'[i])]
         IN /\ m_start'[i] < m_pos'[i]
            /\ m_pos'[i] <= Len(m_source[i])
            /\ NewToken(i).value =
                 SubSeq(m_source[i], m_start'[i] + 1, m_pos'[i])
            /\ last.kind = "token"
            /\ last.start = m_start'[i] /\ last.end = m_pos'[i]
            /\ \A k \in 1..Len(spans[i]) :
                 spans[i][k].kind = "token" =>
                   /\ spans[i][k].start < m_start'[i]
                   /\ spans[i][k].end <= m_start'[i]]_vars

\* three lexemes were returned, one of them longer than one character
C4_Witness ==
  /\ Len(TokenSpans(1)) >= 3
  /\ \E k \in 1..Len(TokenSpans(1)) : Len(TokenSpans(1)[k].text) >= 2

(***************************************************************************)
(* C5  Keyword precedence: a token that starts at a letter has as lexeme   *)
(* the maximal run of letters and digits from there; its kind is the       *)
(* keyword kind when the whole lexeme is a reserved spelling, by exact     *)
(* match, and Identifier otherwise.  No other token has such a kind.       *)
(***************************************************************************)
Reserved ==
  ( <<"i","n","t">>                     :> "Int"      ) @@
  ( <<"d","o","u","b","l","e">>         :> "Double"   ) @@
  ( <<"s","t","r","i","n","g">>         :> "String"   ) @@
  ( <<"f","u","n","c","t","i","o","n">> :> "Function" ) @@
  ( <<"r","e","t","u","r","n">>         :> "Return"   ) @@
  ( <<"i","f">>                         :> "If"       ) @@
  ( <<"e","l","s","e">>                 :> "Else"     ) @@
  ( <<"f","o","r">>                     :> "For"      ) @@
  ( <<"c","o","n","t","i","n","u","e">> :> "Continue" ) @@
  ( <<"b","r","e","a","k">>             :> "Break"    )

\* the end of the maximal run of letters and digits of s that starts at p
RunEnd(s, p) ==
  CHOOSE q \in p..Len(s) :
    /\ \A r \in p..(q - 1) : Alphabetic(CharAt(s, r)) \/ Decimal(CharAt(s, r))
    /\ q < Len(s) => ~(Alphabetic(CharAt(s, q)) \/ Decimal(CharAt(s, q)))

C5_KeywordPrecedence ==
  [][\A i \in Lexers :
       ReturnsToken(i) =>
         LET s == m_source[i]
             t == NewToken(i)
             q == RunEnd(s, m_start'[i])
         IN IF Alphabetic(FirstChar(i))
              THEN /\ t.value = SubSeq(s, m_start'[i] + 1, q)
                   /\ m_pos'[i] = q
                   /\ t.type = IF t.value \in DOMAIN Reserved
                                 THEN Reserved[t.value]
                                 ELSE "Identifier"
              ELSE t.type \notin {"Identifier"} \cup Range(Reserved)]_vars

\* `if iff` was scanned: the keyword, then an identifier it is a prefix of
C5_Witness ==
  \E k \in 1..Len(tokens[1]) - 1 :
    /\ tokens[1][k] = Token("If", <<"i","f">>)
    /\ tokens[1][k + 1] = Token("Identifier", <<"i","f","f">>)

(***************************************************************************)
(* C6  Maximal munch: a token that starts at `=`, `>` or `<` is the        *)
(* two-character token Equal, GreaterEqual or LesserEqual when the next    *)
(* source character is `=`, and the one-character token Assign, Greater or *)
(* Lesser when it is another character or there is none.                   *)
(***************************************************************************)
TwoCharKind == ("=" :> "Equal") @@ (">" :> "GreaterEqual") @@ ("<" :> "LesserEqual")

OneCharKind == ("=" :> "Assign") @@ (">" :> "Greater") @@ ("<" :> "Lesser")

\* the kinds of the scan of a source, up to the first EndOfInput
MunchExamples ==
  ( <<"=","=">>     :> <<"Equal", "EndOfInput">> ) @@
  ( <<">","=">>     :> <<"GreaterEqual", "EndOfInput">> ) @@
  ( <<"<","=">>     :> <<"LesserEqual", "EndOfInput">> ) @@
  ( <<">"," ","=">> :> <<"Greater", "Assign", "EndOfInput">> ) @@
  ( <<"=","=","=">> :> <<"Equal", "Assign", "EndOfInput">> )

C6_MaximalMunch ==
  [][\A i \in Lexers :
       /\ ReturnsToken(i) /\ FirstChar(i) \in DOMAIN TwoCharKind =>
            LET s == m_source[i]
                c == FirstChar(i)
                p == m_start'[i]
                t == NewToken(i)
            IN IF p + 1 < Len(s) /\ CharAt(s, p + 1) = "="
                 THEN /\ t.type = TwoCharKind[c]
                      /\ t.value = <<c, "=">>
                      /\ m_pos'[i] = p + 2
                 ELSE /\ t.type = OneCharKind[c]
                      /\ t.value = <<c>>
                      /\ m_pos'[i] = p + 1
       /\ Returns(i) /\ ~SeenEnd(i) /\ NewToken(i).type = "EndOfInput"
            /\ m_source[i] \in DOMAIN MunchExamples =>
              Types(tokens'[i]) = MunchExamples[m_source[i]]]_vars

\* `===` was scanned to its end: Equal, then Assign
C6_Witness ==
  /\ m_source[1] = <<"=","=","=">>
  /\ Types(tokens[1]) = <<"Equal", "Assign", "EndOfInput">>

(***************************************************************************)
(* C7  Invalid characters are tokens: a token that starts at a character   *)
(* that is no letter, no digit and no operator or punctuation character is *)
(* Invalid, its lexeme is that one character and the cursor stands right   *)
(* after it, where the next call goes on; no other token is Invalid.       *)
(***************************************************************************)
OperatorChars ==
  {"=", "*", "/", "+", "-", ">", "<", "{", "}", "(", ")", ",", ":", ";"}

C7_InvalidIsAToken ==
  [][\A i \in Lexers :
       ReturnsToken(i) =>
         LET c == FirstChar(i)
             t == NewToken(i)
         IN IF ~Alphabetic(c) /\ ~Decimal(c) /\ c \notin OperatorChars
              THEN /\ t.type = "Invalid"
                   /\ t.value = <<c>>
                   /\ m_pos'[i] = m_start'[i] + 1
                   /\ pc'[i] = "idle"
              ELSE t.type # "Invalid"]_vars

\* a quote was returned as Invalid and the scan went on with an identifier
C7_Witness ==
  \E k \in 1..Len(tokens[1]) - 1 :
    /\ tokens[1][k] = Token("Invalid", <<"\"">>)
    /\ tokens[1][k + 1].type = "Identifier"

(***************************************************************************)
(* Vocabulary of the properties about what is skipped.                     *)
(***************************************************************************)
Blank(c) == c \in {" ", "\t", "\r", "\n"}

\* position p of s lies in a comment: a `//` at or before it, no LF between
CommentChar(s, p) ==
  \E q \in 0..p :
    /\ q + 1 < Len(s)
    /\ CharAt(s, q) = "/" /\ CharAt(s, q + 1) = "/"
    /\ \A r \in q..p : CharAt(s, r) # "\n"

\* position p of s is neither whitespace nor part of a comment
Substantive(s, p) == ~Blank(CharAt(s, p)) /\ ~CommentChar(s, p)

Positions(s) == 0..(Len(s) - 1)

(***************************************************************************)
(* C8  Skipping: no returned lexeme holds a whitespace character or a      *)
(* character of a comment, a comment being a `//` and what follows it up   *)
(* to the next LF or the end; the scan goes on after it, so that a         *)
(* finished scan has returned every other character in a lexeme.  A `/`    *)
(* outside a comment is a Divide token, also as the last character.        *)
(***************************************************************************)
C8_Skipping ==
  \A i \in Lexers :
    LET s  == m_source[i]
        sp == spans[i]
    IN /\ \A k \in 1..Len(sp) :
            LET x == sp[k]
            IN CASE x.kind = "token" ->
                      /\ \A p \in x.start..(x.end - 1) : Substantive(s, p)
                      /\ (x.type = "Divide") = (CharAt(s, x.start) = "/")
                      /\ x.type = "Divide" => x.end = x.start + 1
                 [] x.kind = "comment" ->
                      /\ SubSeq(x.text, 1, 2) = <<"/", "/">>
                      /\ \A p \in x.start..(x.end - 1) : CharAt(s, p) # "\n"
                      /\ x.end < Len(s) => CharAt(s, x.end) = "\n"
                 [] OTHER ->
                      /\ x.end = x.start + 1
                      /\ Blank(CharAt(s, x.start))
       /\ SeenEnd(i) =>
            \A p \in Positions(s) :
              Substantive(s, p) =>
                \E k \in 1..Len(sp) :
                  /\ sp[k].kind = "token"
                  /\ sp[k].start <= p /\ p < sp[k].end

\* a finished scan that skipped a comment and then returned the last
\* character of the source as Divide
C8_Witness ==
  /\ SeenEnd(1)
  /\ \E k, l \in 1..Len(spans[1]) :
       /\ k < l
       /\ spans[1][k].kind = "comment"
       /\ spans[1][l].type = "Divide"
       /\ spans[1][l].end = Len(m_source[1])

(***************************************************************************)
(* C9  Empty and blank input: on a source that is empty or holds only      *)
(* whitespace and comments every call of next() returns EndOfInput with    *)
(* an empty lexeme.                                                        *)
(***************************************************************************)
BlankSource(s) == \A p \in Positions(s) : ~Substantive(s, p)

C9_BlankInput ==
  \A i \in Lexers :
    BlankSource(m_source[i]) =>
      /\ \A k \in 1..Len(tokens[i]) : tokens[i][k] = EndToken
      /\ TokenSpans(i) = << >>

\* the first call on a source of whitespace and a comment has returned
C9_Witness ==
  /\ BlankSource(m_source[1])
  /\ {"space", "comment"} \subseteq SpanKinds(1)
  /\ pc[1] = "idle"
  /\ tokens[1] = << EndToken >>

(***************************************************************************)
(* C10  Independent instances: however the steps of two Lexers are         *)
(* interleaved, each returns the tokens it returns when it runs alone,     *)
(* two Lexers over the same source return the same tokens, and a step of   *)
(* one leaves the other as it was.                                         *)
(***************************************************************************)
LexerState(i) == << m_source[i], m_pos[i], m_start[i], pc[i], tokens[i] >>

C10_Independent ==
  /\ [](\A i \in Lexers :
          LET alone == ScanAlone(m_source[i])
          IN \A k \in 1..Len(tokens[i]) :
               tokens[i][k] = IF k <= Len(alone) THEN alone[k] ELSE EndToken)
  /\ [](\A i, j \in Lexers :
          m_source[i] = m_source[j] =>
            \A k \in 1..Min(Len(tokens[i]), Len(tokens[j])) :
              tokens[i][k] = tokens[j][k])
  /\ [][\A i, j \in Lexers :
          i # j /\ LexerState(i)' # LexerState(i) =>
            LexerState(j)' = LexerState(j)]_vars

\* two Lexers over different sources, both in the middle of a call, the
\* first after it has returned a token
C10_Witness ==
  /\ Lexers = {1, 2}
  /\ m_source[1] # m_source[2]
  /\ pc[1] = "identifier" /\ Len(tokens[1]) = 1
  /\ pc[2] = "comment"

(***************************************************************************)
(* C11  Frame of next(): no step of next() changes the source text of a    *)
(* Lexer or the keyword table, which stays the table it was built as; the  *)
(* Lexer fields a step changes are m_pos and m_start only.                 *)
(***************************************************************************)
C11_Frame ==
  /\ [](keywords = keywordMap)
  /\ [][m_source' = m_source /\ keywords' = keywords]_vars

\* a finished scan that looked up a lexeme the table holds and one it does
\* not hold
C11_Witness ==
  /\ SeenEnd(1)
  /\ \E k, l \in 1..Len(tokens[1]) :
       /\ tokens[1][k].type = "Identifier"
       /\ tokens[1][k].value \notin DOMAIN keywords
       /\ tokens[1][l].type \in Range(keywordMap)
       /\ tokens[1][l].value \in DOMAIN keywords

(***************************************************************************)
(* C12  Number scan: a token that starts at a decimal digit is an          *)
(* IntegerLiteral whose lexeme is the maximal run of decimal digits from   *)
(* there, and no other token is an IntegerLiteral; a `-` is always the     *)
(* token Minus of its own.                                                 *)
(***************************************************************************)
\* the end of the maximal run of decimal digits of s that starts at p
DigitRunEnd(s, p) ==
  CHOOSE q \in p..Len(s) :
    /\ \A r \in p..(q - 1) : Decimal(CharAt(s, r))
    /\ q < Len(s) => ~Decimal(CharAt(s, q))

\* the tokens of the scan of a source, up to the first EndOfInput
NumberExamples ==
  ( <<"-","1","2">> :>
      << Token("Minus", <<"-">>), Token("IntegerLiteral", <<"1","2">>),
         EndToken >> ) @@
  ( <<"1","a","b">> :>
      << Token("IntegerLiteral", <<"1">>), Token("Identifier", <<"a","b">>),
         EndToken >> )

DeadKindExamples ==
  ( <<"1",".","5">> :>
      << Token("IntegerLiteral", <<"1">>), Token("Invalid", <<".">>),
         Token("IntegerLiteral", <<"5">>), EndToken >> ) @@
  ( <<"\"","h","i","\"">> :>
      << Token("Invalid", <<"\"">>), Token("Identifier", <<"h","i">>),
         Token("Invalid", <<"\"">>), EndToken >> )

C14_CursorBounds ==
  /\ [](\A i \in Lexers :
          /\ 0 <= m_start[i]
          /\ m_start[i] <= m_pos[i]
          /\ m_pos[i] <= Len(m_source[i])
          /\ \A r \in reads[i] : 0 <= r /\ r < Len(m_source[i]))
  /\ [][\A i \in Lexers : m_pos'[i] >= m_pos[i]]_vars

\* a finished scan that ran the comment loop to the end of the source and
\* read its last character
C14_Witness ==
  /\ SeenEnd(1)
  /\ Len(m_source[1]) >= 4
  /\ m_pos[1] = Len(m_source[1])
  /\ spans[1][Len(spans[1])].kind = "comment"
  /\ (Len(m_source[1]) - 1) \in reads[1]

(***************************************************************************)
(* C15  Position fields: the line and column of every returned token are   *)
(* the position its lexeme starts at in the source, counted from one fixed *)
(* base, the line one more after each LF and the column counted from the   *)
(* character after the last LF.                                            *)
(***************************************************************************)
\* the number of LFs of s before position p
LineOf(s, p) == Cardinality({r \in 0..(p - 1) : CharAt(s, r) = "\n"})

\* the distance of position p of s from the start of its line
ColumnOf(s, p) ==
  Cardinality({r \in 0..(p - 1) : \A q \in r..(p - 1) : CharAt(s, q) # "\n"})

C15_PositionFields ==
  \A i \in Lexers :
    \E base \in {0, 1} :
      \A k \in 1..Len(TokenSpans(i)) :
        LET p == TokenSpans(i)[k].start
        IN /\ tokens[i][k].line = base + LineOf(m_source[i], p)
           /\ tokens[i][k].column = base + ColumnOf(m_source[i], p)

(***************************************************************************)
(* C16  Progress per token: a call of next() that returns a token other    *)
(* than EndOfInput leaves m_pos beyond where the call found it and         *)
(* returns a lexeme that is not empty, of one character for Invalid and    *)
(* the one-character operators and of two for Equal, GreaterEqual and      *)
(* LesserEqual; a scan returns at most as many such tokens as the source   *)
(* has characters.                                                         *)
(***************************************************************************)
OneCharKinds ==
  { "Invalid", "Assign", "Multiply", "Divide", "Plus", "Minus", "Greater",
    "Lesser", "BraceOpen", "BraceClose", "ParenOpen", "ParenClose", "Comma",
    "Colon", "SemiColon" }

TwoCharKinds == {"Equal", "GreaterEqual", "LesserEqual"}

\* where the cursor stands between two calls, before EndOfInput: at the end
\* of the lexeme returned last
EntryPos(i) ==
  IF TokenSpans(i) = << >> THEN 0
  ELSE TokenSpans(i)[Len(TokenSpans(i))].end

C16_Progress ==
  /\ [](\A i \in Lexers :
          /\ pc[i] = "idle" /\ ~SeenEnd(i) => m_pos[i] = EntryPos(i)
          /\ Cardinality({k \in 1..Len(tokens[i]) :
                            tokens[i][k].type # "EndOfInput"})
               <= Len(m_source[i]))
  /\ [][\A i \in Lexers :
          ReturnsToken(i) =>
            LET t == NewToken(i)
            IN /\ m_pos'[i] > EntryPos(i)
               /\ Len(t.value) >= 1
               /\ t.type \in OneCharKinds => Len(t.value) = 1
               /\ t.type \in TwoCharKinds => Len(t.value) = 2]_vars

\* a finished scan of three characters that returned three tokens
C16_Witness ==
  /\ SeenEnd(1)
  /\ Len(m_source[1]) = 3
  /\ Len(TokenSpans(1)) = 3

(***************************************************************************)
(* C17  Kind, lexeme and display string agree: the display string of the   *)
(* kind of every returned operator, punctuation or keyword token is its    *)
(* lexeme; the display table has an entry for every TokenType; the keyword *)
(* table maps different spellings to different kinds, and the display      *)
(* string of the kind of a spelling is the spelling.                       *)
(***************************************************************************)
KeywordKinds ==
  { "Int", "Double", "String", "Function", "Return", "If", "Else", "For",
    "Continue", "Break" }

FixedLexemeKinds ==
  (OneCharKinds \ {"Invalid"}) \cup TwoCharKinds \cup KeywordKinds

C17_DisplayIsLexeme ==
  /\ DOMAIN tokenTypeMap = TokenType
  /\ \A a, b \in DOMAIN keywords : keywords[a] = keywords[b] => a = b
  /\ \A a \in DOMAIN keywords :
       keywords[a] \in KeywordKinds /\ tokenTypeMap[keywords[a]] = a
  /\ \A i \in Lexers :
       \A k \in 1..Len(tokens[i]) :
         tokens[i][k].type \in FixedLexemeKinds =>
           tokenTypeMap[tokens[i][k].type] = tokens[i][k].value

\* the scan of the source of main() is finished: keywords, one-character and
\* two-character operators were returned
C17_Witness ==
  /\ SeenEnd(1)
  /\ {"Function", "Else", "Equal", "ParenOpen", "Minus"}
       \subseteq Range(Types(tokens[1]))

(***************************************************************************)
(* C18  The Lexer of src/lexer.cpp is a coarsening of the Lexer of         *)
(* src/lexer-advanced.cpp: on the same source its token sequence is the    *)
(* advanced token sequence with every token replaced as follows, lexemes   *)
(* kept: Identifier and every keyword kind by Identifier, IntegerLiteral   *)
(* by Number, Assign by Assign, Divide by Divide, Equal by Assign `=` and  *)
(* Assign `=`, GreaterEqual by Invalid `>` and Assign `=`, LesserEqual by  *)
(* Invalid `<` and Assign `=`, every other operator kind and Invalid by    *)
(* Invalid, EndOfInput by EndOfInput; and both skip the same whitespace    *)
(* and comment spans.                                                      *)
(***************************************************************************)
\* the tokens of the simple lexer that stand for one advanced token
Coarsen(tok) ==
  CASE tok.type \in {"Identifier"} \cup KeywordKinds ->
         << [kind |-> "Identifier", value |-> tok.value] >>
    [] tok.type = "IntegerLiteral" ->
         << [kind |-> "Number", value |-> tok.value] >>
    [] tok.type = "Assign" -> << [kind |-> "Assign", value |-> tok.value] >>
    [] tok.type = "Divide" -> << [kind |-> "Divide", value |-> tok.value] >>
    [] tok.type = "Equal" ->
         << [kind |-> "Assign", value |-> << "=" >>],
            [kind |-> "Assign", value |-> << "=" >>] >>
    [] tok.type = "GreaterEqual" ->
         << [kind |-> "Invalid", value |-> << ">" >>],
            [kind |-> "Assign", value |-> << "=" >>] >>
    [] tok.type = "LesserEqual" ->
         << [kind |-> "Invalid", value |-> << "<" >>],
            [kind |-> "Assign", value |-> << "=" >>] >>
    [] tok.type = "EndOfInput" ->
         << [kind |-> "EndOfInput", value |-> tok.value] >>
    [] OTHER -> << [kind |-> "Invalid", value |-> tok.value] >>

RECURSIVE CoarsenAll(_)
CoarsenAll(toks) ==
  IF toks = << >> THEN << >> ELSE Coarsen(Head(toks)) \o CoarsenAll(Tail(toks))

\* the whitespace and comment spans passed, in order, as (kind, start, end)
Skipped(sp) ==
  LET sk == SelectSeq(sp, LAMBDA x : x.kind # "token")
  IN [k \in 1..Len(sk) |-> << sk[k].kind, sk[k].start, sk[k].end >>]

\* the simple lexer i has returned EndOfInput at least once
SimpleSeenEnd(i) ==
  \E k \in 1..Len(simple[i].tokens) : simple[i].tokens[k].kind = "EndOfInput"

\* a sequence of simple tokens up to its first EndOfInput
RECURSIVE ToEnd(_)
ToEnd(toks) ==
  IF toks = << >> THEN << >>
  ELSE IF Head(toks).kind = "EndOfInput" THEN << Head(toks) >>
  ELSE << Head(toks) >> \o ToEnd(Tail(toks))

Prefix(a, b) == Len(a) <= Len(b) /\ a = SubSeq(b, 1, Len(a))

\* C18: at every moment the simple lexer's tokens and the coarsened tokens of
\* the advanced lexer over the same source agree as far as both have got, and
\* so do the spans they skipped; once both have returned EndOfInput the two
\* token sequences up to it and the two sequences of skipped spans are equal
C18_Coarsening ==
  \A i \in DOMAIN simple :
    LET A  == CoarsenAll(tokens[i])
        B  == simple[i].tokens
        SA == Skipped(spans[i])
        SB == Skipped(simple[i].spans)
    IN /\ Prefix(A, B) \/ Prefix(B, A)
       /\ Prefix(SA, SB) \/ Prefix(SB, SA)
       /\ SeenEnd(i) /\ SimpleSeenEnd(i) => ToEnd(A) = ToEnd(B) /\ SA = SB

\* both lexers have finished a source with keywords, a two-character
\* operator, operators of the advanced lexer only, a number and whitespace,
\* and the simple lexer has returned more tokens than the advanced one
C18_Witness ==
  /\ 1 \in DOMAIN simple
  /\ SeenEnd(1) /\ SimpleSeenEnd(1)
  /\ {"If", "Equal", "ParenOpen", "Assign", "IntegerLiteral", "Invalid"}
       \subseteq Range(Types(tokens[1]))
  /\ "space" \in SpanKinds(1)
  /\ Len(ToEnd(simple[1].tokens)) > Len(tokens[1])

====
